---- MODULE Spec2Model ----
(***************************************************************************)
(* Reference-graph validator (Walker, rule set, orphan detector, finding   *)
(* map) and incremental diff engine of avocado, src/src/index.ts.          *)
(*                                                                         *)
(* Text is modelled as a sequence of tokens: a path is the sequence of its *)
(* segments, String.includes is "occurs as a contiguous run of tokens".    *)
(***************************************************************************)
EXTENDS Integers, Sequences, FiniteSets, TLC

\* ------------------------------------------------------------------ bounds

\* Total size of a tree snapshot: references + parse errors + declared
\* info/host + manifest inputs + manifest defects, summed over the tree.
MaxSize == 4

\* ------------------------------------------------------------ path algebra

\* path.dirname on a segment sequence (the root is its own parent).
dirname(p) == IF Len(p) = 0 THEN p ELSE SubSeq(p, 1, Len(p) - 1)

\* path.resolve(path.join(dir, rel)): "." is dropped, ".." pops a segment.
RECURSIVE resolve(_, _)
resolve(dir, rel) ==
    IF rel = <<>> THEN dir
    ELSE IF Head(rel) = "." THEN resolve(dir, Tail(rel))
    ELSE IF Head(rel) = ".." THEN resolve(dirname(dir), Tail(rel))
    ELSE resolve(Append(dir, Head(rel)), Tail(rel))

\* String.prototype.includes on token sequences.
Includes(text, part) ==
    \E i \in 0..(Len(text) - Len(part)) :
        \A j \in 1..Len(part) : text[i + j] = part[j]

\* a is a (non-strict) ancestor directory of p.
IsPrefix(a, p) == Len(a) <= Len(p) /\ SubSeq(p, 1, Len(a)) = a

\* The relative url that names `target` from directory `dir` (input
\* generation only: the text a document author writes in a "$ref").
RECURSIVE Ups(_)
Ups(n) == IF n = 0 THEN <<>> ELSE <<"..">> \o Ups(n - 1)

RECURSIVE CommonLen(_, _)
CommonLen(a, b) ==
    IF a = <<>> \/ b = <<>> \/ Head(a) # Head(b) THEN 0
    ELSE 1 + CommonLen(Tail(a), Tail(b))

Relative(dir, target) ==
    LET c == CommonLen(dir, target)
    IN  Ups(Len(dir) - c) \o SubSeq(target, c + 1, Len(target))

\* ---------------------------------------------------------------- universe

\* process.cwd() / pr.workingDir.
Cwd == <<"w">>

FA == <<"w", "svc", "resource-manager", "2021", "a.json">>
FB == <<"w", "svc", "resource-manager", "b.json">>
FC == <<"w", "svc", "c.json">>

\* A path with an 'examples' segment.
FE == <<"w", "svc", "examples", "e.json">>

\* The .json paths a tree may hold.
Files == {FA, FB, FC, FE}

\* The files of the trees built by size (no example file).
PlainFiles == {FA, FB, FC}

\* recursiveReaddir order of the .json files.
FileOrder == <<FC, FE, FB, FA>>

DirSvc == <<"w", "svc">>
DirRm == <<"w", "svc", "resource-manager">>

\* The directories that may hold a readme.md, in recursiveReaddir order.
ReadmeDirOrder == <<DirSvc, DirRm>>
ReadmeDirs == {DirSvc, DirRm}

readmePathOf(d) == Append(d, "readme.md")

NoPath == <<>>

\* ------------------------------------------------------- tree snapshots

NoDup(s) == \A i, j \in 1..Len(s) : i # j => s[i] # s[j]

\* The text of a "$ref" written in file f that names file t; references to
\* FA are written without a fragment, the others with one.
RefText(f, t) ==
    Relative(dirname(f), t) \o (IF t = FA THEN <<>> ELSE <<"#", "definitions">>)

\* A same-document reference.
LocalRef == <<"#", "definitions">>

NoInfo == [declared |-> FALSE, hasVersion |-> FALSE, version |-> <<>>]

Plain == [isNull |-> FALSE, errs |-> 0, info |-> NoInfo, host |-> <<>>]

InfoNoVersion == [declared |-> TRUE, hasVersion |-> FALSE, version |-> <<>>]

Info2021 == [declared |-> TRUE, hasVersion |-> TRUE, version |-> <<"2021">>]

\* What a document may carry besides its references: parser errors, a null
\* document, an info object (with or without version), a host.
Headers ==
    { [isNull |-> FALSE, errs |-> 2, info |-> NoInfo, host |-> <<>>],
      [isNull |-> TRUE, errs |-> 1, info |-> NoInfo, host |-> <<>>],
      [isNull |-> FALSE, errs |-> 0, info |-> InfoNoVersion, host |-> <<>>],
      [isNull |-> FALSE, errs |-> 0, info |-> Info2021, host |-> <<>>],
      [isNull |-> FALSE, errs |-> 1, info |-> Info2021, host |-> <<"management.azure.com">>] }

Missing ==
    [exists |-> FALSE, isNull |-> FALSE, refs |-> <<>>, errs |-> 0,
     info |-> NoInfo, host |-> <<>>]

HasHeader(c) == c.isNull \/ c.errs > 0 \/ c.info.declared \/ c.host # <<>>

\* What file f on disk parses to: the document (null, or an object with its
\* "$ref" texts in extraction order, info and host) and the number of
\* errors the parser reports.  targets are the files its cross-file
\* references name; a document with a header also starts with a
\* same-document reference.
Doc(f, h, targets) ==
    [exists |-> TRUE, isNull |-> h.isNull,
     refs |-> IF h.isNull THEN <<>>
              ELSE (IF HasHeader(h) THEN <<LocalRef>> ELSE <<>>)
                   \o [i \in 1..Len(targets) |-> RefText(f, targets[i])],
     errs |-> h.errs, info |-> h.info, host |-> h.host]

\* Size of a file: its cross-file references, and 3 for a header.
DocSize(c) ==
    LET CrossFile(r) == r # LocalRef
    IN  Len(SelectSeq(c.refs, CrossFile)) + (IF HasHeader(c) THEN 3 ELSE 0)

\* The headers a document of size at most n may have.
HeadersUpTo(n) == {Plain} \cup (IF n >= 3 THEN Headers ELSE {})

\* Some content c of file f of size at most n satisfies K(c).
ForSomeContent(f, n, K(_)) ==
    \/ K(Missing)
    \/ \E h \in HeadersUpTo(n) :
       \E k \in 0..(IF h.isNull THEN 0 ELSE n - (IF HasHeader(h) THEN 3 ELSE 0)) :
       \E targets \in [1..k -> PlainFiles] :
           K(Doc(f, h, targets))

NoReadme == [exists |-> FALSE, inputs |-> <<>>, autorest |-> TRUE, multi |-> FALSE]

Defective(r) == ~r.autorest \/ r.multi

\* Size of a manifest: its inputs, and 3 for a defect.
ReadmeSize(r) == Len(r.inputs) + (IF Defective(r) THEN 3 ELSE 0)

\* Some readme.md r of directory d of size at most n satisfies K(r): its input-file
\* texts (as the Manifest Reader lists them), whether it carries the
\* AutoRest marker, and whether its default tag spans several API versions.
ForSomeReadme(d, n, K(_)) ==
    \/ K(NoReadme)
    \/ \E flags \in {<<TRUE, FALSE>>} \cup (IF n >= 3 THEN {<<FALSE, FALSE>>, <<TRUE, TRUE>>} ELSE {}) :
       \E k \in 0..(n - (IF flags = <<TRUE, FALSE>> THEN 0 ELSE 3)) :
       \E targets \in [1..k -> PlainFiles] :
           /\ NoDup(targets)
           /\ K([exists |-> TRUE, inputs |-> [i \in 1..k |-> Relative(d, targets[i])],
                 autorest |-> flags[1], multi |-> flags[2]])

MkTree(a, b, c, r1, r2) ==
    [files |-> (FA :> a @@ FB :> b @@ FC :> c @@ FE :> Missing), readmes |-> (DirSvc :> r1 @@ DirRm :> r2)]

\* t is a tree snapshot of size at most n.
IsTree(t, n) ==
    ForSomeContent(FA, n, LAMBDA a :
    ForSomeContent(FB, n - DocSize(a), LAMBDA b :
    ForSomeContent(FC, n - DocSize(a) - DocSize(b), LAMBDA c :
    ForSomeReadme(DirSvc, n - DocSize(a) - DocSize(b) - DocSize(c), LAMBDA r1 :
    ForSomeReadme(DirRm, n - DocSize(a) - DocSize(b) - DocSize(c) - ReadmeSize(r1), LAMBDA r2 :
        t = MkTree(a, b, c, r1, r2))))))

TreeSize(t) ==
    DocSize(t.files[FA]) + DocSize(t.files[FB]) + DocSize(t.files[FC])
    + ReadmeSize(t.readmes[DirSvc]) + ReadmeSize(t.readmes[DirRm])

\* ----------------------------------------------------------------- findings

\* An err.Error; the fields a code does not carry are NoPath / 0.
Finding(code, p, json, readme, folder, pos) ==
    [code |-> code, path |-> p, jsonUrl |-> json, readMeUrl |-> readme,
     folderUrl |-> folder, position |-> pos]

\* The object errorCorrelationId hashes: the code, one url, and for
\* JSON_PARSE the parser position (0 when the object has no position).
errorCorrelationId(e) ==
    CASE e.code = "UNREFERENCED_JSON_FILE" -> <<e.code, e.jsonUrl, 0>>
      [] e.code = "NO_JSON_FILE_FOUND" -> <<e.code, e.readMeUrl, 0>>
      [] e.code = "NOT_AUTOREST_MARKDOWN" -> <<e.code, e.readMeUrl, 0>>
      [] e.code = "JSON_PARSE" -> <<e.code, e.path, e.position>>
      [] e.code = "CIRCULAR_REFERENCE" -> <<e.code, e.jsonUrl, 0>>
      [] e.code = "MISSING_README" -> <<e.code, e.folderUrl, 0>>
      [] e.code = "INCONSISTENT_API_VERSION" -> <<e.code, e.jsonUrl, 0>>
      [] e.code = "MULTIPLE_API_VERSION" -> <<e.code, e.readMeUrl, 0>>
      [] e.code = "INVALID_FILE_LOCATION" -> <<e.code, e.jsonUrl, 0>>

\* Map.set on an insertion-ordered map kept as a sequence of <<key, value>>.
RECURSIVE MapSet(_, _, _)
MapSet(m, k, v) ==
    IF m = <<>> THEN <<<<k, v>>>>
    ELSE IF Head(m)[1] = k THEN <<<<k, v>>>> \o Tail(m)
    ELSE <<Head(m)>> \o MapSet(Tail(m), k, v)

MapKeys(m) == {m[i][1] : i \in 1..Len(m)}

MapHas(m, k) == k \in MapKeys(m)

MapGet(m, k) == m[CHOOSE i \in 1..Len(m) : m[i][1] = k][2]

RECURSIVE MapSetAll(_, _)
MapSetAll(m, es) ==
    IF es = <<>> THEN m
    ELSE MapSetAll(MapSet(m, errorCorrelationId(Head(es)), Head(es)), Tail(es))

\* ------------------------------------------------------------ pure helpers

\* isExample: some path segment is 'examples'.
isExample(filePath) == \E i \in 1..Len(filePath) : filePath[i] = "examples"

kindOf(filePath) == IF isExample(filePath) THEN "EXAMPLE" ELSE "SWAGGER"

Specification(p, readMePath) == [path |-> p, readMePath |-> readMePath, kind |-> kindOf(p)]

\* parseRef(ref).url: the text before the first '#'.
RECURSIVE parseRefUrl(_)
parseRefUrl(ref) ==
    IF ref = <<>> \/ Head(ref) = "#" THEN <<>>
    ELSE <<Head(ref)>> \o parseRefUrl(Tail(ref))

RECURSIVE SelectNonEmpty(_)
SelectNonEmpty(us) ==
    IF us = <<>> THEN <<>>
    ELSE IF Head(us) = <<>> THEN SelectNonEmpty(Tail(us))
    ELSE <<Head(us)>> \o SelectNonEmpty(Tail(us))

\* getReferencedFileNames(fileName, doc): the urls of the "$ref"s of doc,
\* the empty ones dropped, resolved against the directory of fileName.
getReferencedFileNames(fileName, doc) ==
    LET urls == SelectNonEmpty([i \in 1..Len(doc.refs) |-> parseRefUrl(doc.refs[i])])
    IN  [i \in 1..Len(urls) |-> resolve(dirname(fileName), urls[i])]

\* jsonParse(...).errors: one JSON_PARSE per error the parser reports.
jsonParseErrors(fileName, doc) ==
    [i \in 1..doc.errs |-> Finding("JSON_PARSE", fileName, NoPath, NoPath, NoPath, i)]

\* String(info.version): an absent version is searched for as 'undefined'.
versionText(info) == IF info.hasVersion THEN info.version ELSE <<"undefined">>

validateSpecificationAPIVersion(current, doc) ==
    IF doc.info.declared /\ ~Includes(current.path, versionText(doc.info))
    THEN <<Finding("INCONSISTENT_API_VERSION", current.path, current.path,
                   current.readMePath, NoPath, 0)>>
    ELSE <<>>

validateFileLocation(current, doc) ==
    IF doc.host = <<"management.azure.com">> /\ ~Includes(current.path, <<"resource-manager">>)
    THEN <<Finding("INVALID_FILE_LOCATION", current.path, current.path,
                   current.readMePath, NoPath, 0)>>
    ELSE <<>>

\* --------------------------------------------------------------------- state

VARIABLES
    tree,              \* the working tree (what the file system holds)
    exclude,           \* config.args.excludePaths
    dir,               \* argument of avocadoForDir
    pc,                \* position in avocadoForDir / validateFolder
    inputFileSet,      \* validateInputFiles: the roots, in iteration order
    rootIdx,           \* the next root of the loop at line 473
    allInputFileSet,   \* validateInputFiles: every .json under a readme
    graySet,
    blackSet,
    stack,             \* active DFSTraversalValidate calls, innermost last
    findings,          \* the findings validateFolder has yielded, in order
    map,               \* avocadoForDir: correlation key -> finding
    visits,            \* history: DFSTraversalValidate calls per path
    blackened,         \* history: times a path entered blackSet
    circEdges,         \* history: <<current, target>> of each CIRCULAR_REFERENCE
    dpc,               \* position in avocadoForDevOps ("off": not a pull request)
    targetTree,        \* the tree of pr.targetBranch
    sourceTree,        \* the tree of pr.sourceBranch
    diffFiles,         \* pr.diff(): the changed paths, relative to pr.workingDir
    readmeDirs,        \* avocadoForDevOps: the manifest directories, in Set order
    dirIdx,            \* the next directory of the loop at line 601
    targetMap,
    sourceMap,
    emitted,           \* the findings avocadoForDevOps has yielded, in order
    batch,             \* history: what the latest iteration of the loop yielded
    runFindings        \* history: every finding an avocadoForDir map returned

vars ==
    <<tree, exclude, dir, pc, inputFileSet, rootIdx, allInputFileSet, graySet,
      blackSet, stack, findings, map, visits, blackened, circEdges,
      dpc, targetTree, sourceTree, diffFiles, readmeDirs, dirIdx, targetMap,
      sourceMap, emitted, batch, runFindings>>

\* What avocadoForDevOps owns; avocadoForDir leaves it alone.
devOpsVars ==
    <<dpc, targetTree, sourceTree, diffFiles, readmeDirs, dirIdx, targetMap,
      sourceMap, emitted, batch, runFindings>>

\* What validateFolder and the Walker own.
walkVars ==
    <<inputFileSet, rootIdx, allInputFileSet, graySet, blackSet, stack,
      findings, visits, blackened, circEdges>>

\* A yield of validateFolder: avocadoForDir stores each yielded finding
\* under its correlation key before the generator resumes.
Yield(es) ==
    /\ findings' = findings \o es
    /\ map' = MapSetAll(map, es)

\* moveTo(a, b, key): b.add(key); a.delete(key).
moveTo(key) ==
    /\ blackSet' = blackSet \cup {key}
    /\ graySet' = graySet \ {key}
    /\ blackened' = IF key \in blackSet THEN blackened
                    ELSE [blackened EXCEPT ![key] = @ + 1]

Frame(spec) == [current |-> spec, refs |-> <<>>, i |-> 0]

Top == stack[Len(stack)]

Pop == SubSeq(stack, 1, Len(stack) - 1)

\* fs.readFile succeeds.
Readable(p) == p \in Files /\ tree.files[p].exists

\* ------------------------------------------------------------ validateFolder

\* containsReadme(folder): folder/readme.md exists.
containsReadme(folder) == folder \in ReadmeDirs /\ tree.readmes[folder].exists

\* findTheNearestReadme(cwd, swaggerPath): the first directory from
\* swaggerPath upward, short of cwd, that holds a readme.md; NoPath when the
\* scan reaches cwd.  Every directory of the universe lies under Cwd.
RECURSIVE findTheNearestReadme(_, _)
findTheNearestReadme(cwd, curDir) ==
    IF curDir = cwd THEN NoPath
    ELSE IF containsReadme(curDir) THEN curDir
    ELSE findTheNearestReadme(cwd, dirname(curDir))

Range(q) == {q[i] : i \in 1..Len(q)}

\* IterableEx.uniq: the first occurrence of each element, in order.
RECURSIVE uniq(_)
uniq(s) ==
    IF s = <<>> THEN <<>>
    ELSE LET init == uniq(SubSeq(s, 1, Len(s) - 1))
             last == s[Len(s)]
         IN  IF \E i \in 1..Len(init) : init[i] = last THEN init ELSE Append(init, last)

RECURSIVE Flatten(_)
Flatten(ss) == IF ss = <<>> THEN <<>> ELSE Head(ss) \o Flatten(Tail(ss))

\* recursiveReaddir(d), the .json files: those on disk under d.
jsonFilesUnder(d) ==
    LET OnDisk(f) == tree.files[f].exists /\ IsPrefix(d, dirname(f))
    IN  SelectSeq(FileOrder, OnDisk)

\* validateFolder line 527: the readme.md files under d.
allReadMeFiles(d) ==
    LET Found(r) == tree.readmes[r].exists /\ IsPrefix(d, r)
        dirs == SelectSeq(ReadmeDirOrder, Found)
    IN  [i \in 1..Len(dirs) |-> readmePathOf(dirs[i])]

validDirs == {<<"data-plane">>, <<"resource-manager">>}

ignoredDirs == {<<"common">>}

\* validateRPFolderMustContainReadme(d): MISSING_README for each distinct
\* directory of a .json file under a valid category that has no readme.md
\* between itself and process.cwd().
validateRPFolderMustContainReadme(d) ==
    LET Tracked(f) ==
            /\ \E item \in validDirs : Includes(f, item)
            /\ ~\E ignoredItem \in ignoredDirs : Includes(f, ignoredItem)
        tracked == SelectSeq(jsonFilesUnder(d), Tracked)
        allJsonDir == uniq([i \in 1..Len(tracked) |-> dirname(tracked[i])])
        NoReadmeAbove(item) == findTheNearestReadme(Cwd, item) = NoPath
        bare == SelectSeq(allJsonDir, NoReadmeAbove)
    IN  [i \in 1..Len(bare) |-> Finding("MISSING_README", bare[i], NoPath, NoPath, bare[i], 0)]

\* validateReadMeFile(readMePath).
validateReadMeFile(readMePath) ==
    LET m == tree.readmes[dirname(readMePath)]
    IN  (IF ~m.autorest
         THEN <<Finding("NOT_AUTOREST_MARKDOWN", readMePath, NoPath, readMePath, NoPath, 0)>>
         ELSE <<>>)
        \o (IF m.multi
            THEN <<Finding("MULTIPLE_API_VERSION", readMePath, NoPath, readMePath, NoPath, 0)>>
            ELSE <<>>)

\* f.replace('$(this-folder)', '.').
replaceThisFolder(f) ==
    [i \in 1..Len(f) |-> IF f[i] = "$(this-folder)" THEN "." ELSE f[i]]

\* getInputFilesFromReadme(readMePath).
getInputFilesFromReadme(readMePath) ==
    LET d == dirname(readMePath)
        raw == tree.readmes[d].inputs
        fs == uniq([i \in 1..Len(raw) |-> replaceThisFolder(raw[i])])
    IN  [i \in 1..Len(fs) |-> Specification(resolve(d, fs[i]), readMePath)]

\* getAllInputFilesUnderReadme(readMePath).
getAllInputFilesUnderReadme(readMePath) ==
    LET ps == jsonFilesUnder(dirname(readMePath))
    IN  [i \in 1..Len(ps) |-> Specification(ps[i], readMePath)]

\* fs.existsSync(d): Cwd, or a directory holding something on disk.
dirExists(d) ==
    d \in {Cwd}
           \cup {d : f \in {g \in Files : tree.files[g].exists /\ IsPrefix(d, dirname(g))}}
           \cup {d : r \in {q \in ReadmeDirs : tree.readmes[q].exists /\ IsPrefix(d, q)}}

\* Mutant: the gray and black sets outlive the call.
validateFolderKeepsSets ==
    /\ pc = "call"
    /\ dirExists(dir)
    /\ LET readmes == allReadMeFiles(dir)
       IN  /\ findings' = validateRPFolderMustContainReadme(dir)
                \o Flatten([i \in 1..Len(readmes) |-> validateReadMeFile(readmes[i])])
           /\ map' = MapSetAll(<<>>, findings')
           /\ inputFileSet' =
                Flatten([i \in 1..Len(readmes) |-> getInputFilesFromReadme(readmes[i])])
           /\ allInputFileSet' =
                Flatten([i \in 1..Len(readmes) |-> getAllInputFilesUnderReadme(readmes[i])])
    /\ rootIdx' = 1
    /\ stack' = <<>>
    /\ visits' = [f \in Files |-> 0]
    /\ blackened' = [f \in Files |-> 0]
    /\ circEdges' = {}
    /\ pc' = "walk"
    /\ UNCHANGED <<devOpsVars, tree, exclude, dir, graySet, blackSet>>

\* avocadoForDir lines 553-556 with validateFolder lines 525-546 up to the
\* call of validateInputFiles (lines 471-472): the manifest-level findings
\* are yielded, the two Specification sets are folded (Set<Specification>
\* holds objects, so equal paths stay separate members), and the walk starts
\* with fresh gray and black sets.
validateFolder ==
    /\ pc = "call"
    /\ dirExists(dir)
    /\ LET readmes == allReadMeFiles(dir)
       IN  /\ findings' = validateRPFolderMustContainReadme(dir)
                \o Flatten([i \in 1..Len(readmes) |-> validateReadMeFile(readmes[i])])
           /\ map' = MapSetAll(<<>>, findings')
           /\ inputFileSet' =
                Flatten([i \in 1..Len(readmes) |-> getInputFilesFromReadme(readmes[i])])
           /\ allInputFileSet' =
                Flatten([i \in 1..Len(readmes) |-> getAllInputFilesUnderReadme(readmes[i])])
    /\ rootIdx' = 1
    /\ graySet' = {}
    /\ blackSet' = {}
    /\ stack' = <<>>
    /\ visits' = [f \in Files |-> 0]
    /\ blackened' = [f \in Files |-> 0]
    /\ circEdges' = {}
    /\ pc' = "walk"
    /\ UNCHANGED <<devOpsVars, tree, exclude, dir>>

\* avocadoForDir line 554: the directory is not there, the map stays empty.
avocadoForDirNoDir ==
    /\ pc = "call"
    /\ ~dirExists(dir)
    /\ map' = <<>>
    /\ findings' = <<>>
    /\ pc' = "filter"
    /\ UNCHANGED <<devOpsVars, circEdges, tree, exclude, dir, inputFileSet, rootIdx, allInputFileSet, graySet,
                   blackSet, stack, visits, blackened>>

\* ------------------------------------------------------ DFSTraversalValidate

\* Mutant: the path is marked gray whatever its colour.
grayAddAlways(p) == graySet \cup {p}

\* Lines 370-372.
grayAdd(p) == IF p \in blackSet THEN graySet ELSE graySet \cup {p}

\* Mutant: a failed read ends the whole walk instead of the one call.
DFSReadFailAborts ==
    /\ pc = "walk" /\ stack # <<>> /\ Top.i = 0
    /\ ~Readable(Top.current.path)
    /\ graySet' = grayAdd(Top.current.path)
    /\ Yield(<<Finding("NO_JSON_FILE_FOUND", Top.current.path, Top.current.path,
                       Top.current.readMePath, NoPath, 0)>>)
    /\ stack' = <<>>
    /\ rootIdx' = Len(inputFileSet) + 1
    /\ visits' = [visits EXCEPT ![Top.current.path] = @ + 1]
    /\ UNCHANGED <<devOpsVars, circEdges, tree, exclude, dir, pc, inputFileSet, allInputFileSet, blackSet, blackened>>

\* Lines 370-389, the read fails: the path is marked gray, the finding is
\* yielded and the call returns.
DFSReadFail ==
    /\ pc = "walk" /\ stack # <<>> /\ Top.i = 0
    /\ ~Readable(Top.current.path)
    /\ graySet' = grayAdd(Top.current.path)
    /\ Yield(<<Finding("NO_JSON_FILE_FOUND", Top.current.path, Top.current.path,
                       Top.current.readMePath, NoPath, 0)>>)
    /\ stack' = Pop
    /\ visits' = [visits EXCEPT ![Top.current.path] = @ + 1]
    /\ UNCHANGED <<devOpsVars, circEdges, tree, exclude, dir, pc, inputFileSet, rootIdx, allInputFileSet, blackSet, blackened>>

\* Mutant: the rule findings come before the parser errors.
nodeFindingsRulesFirst(current, doc) ==
    (IF current.kind = "SWAGGER" /\ ~doc.isNull
     THEN validateSpecificationAPIVersion(current, doc) \o validateFileLocation(current, doc)
     ELSE <<>>)
    \o jsonParseErrors(current.path, doc)

\* The findings of lines 391-396 for a parsed document.
nodeFindings(current, doc) ==
    jsonParseErrors(current.path, doc)
    \o (IF current.kind = "SWAGGER" /\ ~doc.isNull
        THEN validateSpecificationAPIVersion(current, doc) \o validateFileLocation(current, doc)
        ELSE <<>>)

\* Mutant: the references are extracted whatever the kind.
refFileNamesAnyKind(current, doc) == getReferencedFileNames(current.path, doc)

\* Line 399.
refFileNames(current, doc) ==
    IF current.kind = "SWAGGER" THEN getReferencedFileNames(current.path, doc) ELSE <<>>

\* Lines 370-399, the read succeeds: the path is marked gray, the parse
\* errors and the rule findings are yielded, the references are extracted.
DFSParse ==
    /\ pc = "walk" /\ stack # <<>> /\ Top.i = 0
    /\ Readable(Top.current.path)
    /\ graySet' = grayAdd(Top.current.path)
    /\ LET doc == tree.files[Top.current.path]
       IN  /\ Yield(nodeFindings(Top.current, doc))
           /\ stack' = [stack EXCEPT ![Len(stack)] =
                            [@ EXCEPT !.refs = refFileNames(Top.current, doc), !.i = 1]]
    /\ visits' = [visits EXCEPT ![Top.current.path] = @ + 1]
    /\ UNCHANGED <<devOpsVars, circEdges, tree, exclude, dir, pc, inputFileSet, rootIdx, allInputFileSet, blackSet, blackened>>

AtRef == pc = "walk" /\ stack # <<>> /\ Top.i >= 1 /\ Top.i <= Len(Top.refs)

refFileName == Top.refs[Top.i]

Advance == [stack EXCEPT ![Len(stack)] = [@ EXCEPT !.i = @ + 1]]

\* Mutant: the cycle is attributed to the target of the back-edge.
circularFindingAtTarget(current, ref) ==
    Finding("CIRCULAR_REFERENCE", ref, ref, current.readMePath, NoPath, 0)

\* The finding of lines 402-409.
circularFinding(current, ref) ==
    Finding("CIRCULAR_REFERENCE", current.path, current.path, current.readMePath, NoPath, 0)

\* Mutant: the call that found the back-edge returns at once.
DFSRefCircularReturns ==
    /\ AtRef
    /\ refFileName \in graySet
    /\ Yield(<<circularFinding(Top.current, refFileName)>>)
    /\ moveTo(refFileName)
    /\ circEdges' = circEdges \cup {<<Top.current.path, refFileName>>}
    /\ stack' = Pop
    /\ UNCHANGED <<devOpsVars, tree, exclude, dir, pc, inputFileSet, rootIdx, allInputFileSet, visits>>

\* Lines 401-411 (and 413 false): the target is gray.
DFSRefCircular ==
    /\ AtRef
    /\ refFileName \in graySet
    /\ Yield(<<circularFinding(Top.current, refFileName)>>)
    /\ moveTo(refFileName)
    /\ circEdges' = circEdges \cup {<<Top.current.path, refFileName>>}
    /\ stack' = Advance
    /\ UNCHANGED <<devOpsVars, tree, exclude, dir, pc, inputFileSet, rootIdx, allInputFileSet, visits>>

\* Lines 413-419: the target is neither gray nor black, recurse into it.
DFSRefRecurse ==
    /\ AtRef
    /\ refFileName \notin graySet
    /\ refFileName \notin blackSet
    /\ stack' = Append(Advance, Frame(Specification(refFileName, Top.current.readMePath)))
    /\ UNCHANGED <<devOpsVars, circEdges, tree, exclude, dir, pc, inputFileSet, rootIdx, allInputFileSet, graySet,
                   blackSet, findings, map, visits, blackened>>

\* Line 413 false: the target is black already.
DFSRefSkip ==
    /\ AtRef
    /\ refFileName \notin graySet
    /\ refFileName \in blackSet
    /\ stack' = Advance
    /\ UNCHANGED <<devOpsVars, circEdges, tree, exclude, dir, pc, inputFileSet, rootIdx, allInputFileSet, graySet,
                   blackSet, findings, map, visits, blackened>>

\* Line 421: every reference is processed, the node turns black.
DFSReturn ==
    /\ pc = "walk" /\ stack # <<>> /\ Top.i = Len(Top.refs) + 1
    /\ moveTo(Top.current.path)
    /\ stack' = Pop
    /\ UNCHANGED <<devOpsVars, circEdges, tree, exclude, dir, pc, inputFileSet, rootIdx, allInputFileSet, findings,
                   map, visits>>

\* -------------------------------------------------------- validateInputFiles

\* Lines 473-475: the next root is walked, black or not.
validateInputFilesNext ==
    /\ pc = "walk" /\ stack = <<>>
    /\ rootIdx <= Len(inputFileSet)
    /\ stack' = <<Frame(inputFileSet[rootIdx])>>
    /\ rootIdx' = rootIdx + 1
    /\ UNCHANGED <<devOpsVars, circEdges, tree, exclude, dir, pc, inputFileSet, allInputFileSet, graySet, blackSet,
                   findings, map, visits, blackened>>

\* The findings of lines 478-491.
unreferencedFindings(all, black) ==
    LET NotBlack(spec) == spec.path \notin black
        rest == SelectSeq(all, NotBlack)
    IN  [i \in 1..Len(rest) |->
            Finding("UNREFERENCED_JSON_FILE", rest[i].path, rest[i].path,
                    rest[i].readMePath, NoPath, 0)]

\* Lines 478-491: every root is walked; report what never turned black.
validateInputFilesReport ==
    /\ pc = "walk" /\ stack = <<>>
    /\ rootIdx > Len(inputFileSet)
    /\ Yield(unreferencedFindings(allInputFileSet, blackSet))
    /\ pc' = "filter"
    /\ UNCHANGED <<devOpsVars, circEdges, tree, exclude, dir, inputFileSet, rootIdx, allInputFileSet, graySet,
                   blackSet, stack, visits, blackened>>

\* --------------------------------------------------------------- avocadoForDir

\* Lines 560-565: the findings whose path matches an exclusion are dropped
\* from the map, which is returned.
avocadoForDirReturn ==
    /\ pc = "filter"
    /\ LET Kept(kv) == ~\E item \in exclude : Includes(kv[2].path, item)
       IN  map' = SelectSeq(map, Kept)
    /\ pc' = "done"
    /\ UNCHANGED <<devOpsVars, circEdges, tree, exclude, dir, inputFileSet, rootIdx, allInputFileSet, graySet,
                   blackSet, stack, findings, visits, blackened>>

\* config.args.excludePaths: nothing, or the pattern '2021'.
Excludes == {{}, {<<"2021">>}}

\* config.args.dir resolved: the working directory, or a directory below.
DirArgs == {Cwd, DirRm}

\* Size of the arguments: 3 for an exclusion, 3 for a directory below.
ArgSize(x, d) == (IF x # {} THEN 3 ELSE 0) + (IF d # Cwd THEN 3 ELSE 0)

\* Nothing has been walked.
Fresh ==
    /\ inputFileSet = <<>>
    /\ rootIdx = 1
    /\ allInputFileSet = <<>>
    /\ graySet = {}
    /\ blackSet = {}
    /\ stack = <<>>
    /\ findings = <<>>
    /\ map = <<>>
    /\ visits = [f \in Files |-> 0]
    /\ blackened = [f \in Files |-> 0]
    /\ circEdges = {}

\* avocado, line 644: not a pull request; avocadoForDir over some tree with
\* some arguments.
Init ==
    /\ \E x \in Excludes, d \in DirArgs :
        /\ ArgSize(x, d) <= MaxSize
        /\ exclude = x
        /\ dir = d
        /\ IsTree(tree, MaxSize - ArgSize(x, d))
    /\ pc = "call"
    /\ Fresh
    /\ dpc = "off"
    /\ targetTree = tree
    /\ sourceTree = tree
    /\ diffFiles = <<>>
    /\ readmeDirs = <<>>
    /\ dirIdx = 1
    /\ targetMap = <<>>
    /\ sourceMap = <<>>
    /\ emitted = <<>>
    /\ batch = <<>>
    /\ runFindings = {}

Next ==
    \/ validateFolder
    \/ avocadoForDirNoDir
    \/ DFSReadFail
    \/ DFSParse
    \/ DFSRefCircular
    \/ DFSRefRecurse
    \/ DFSRefSkip
    \/ DFSReturn
    \/ validateInputFilesNext
    \/ validateInputFilesReport
    \/ avocadoForDirReturn

Spec == Init /\ [][Next]_vars

\* ----------------------------------------------------------- avocadoForDevOps

\* Map.delete.
MapDelete(m, k) ==
    LET Other(kv) == kv[1] # k
    IN  SelectSeq(m, Other)

\* Map.keys() and Map.values(), in insertion order.
MapKeySeq(m) == [i \in 1..Len(m) |-> m[i][1]]

MapValues(m) == [i \in 1..Len(m) |-> m[i][2]]

\* The location fields of a finding that name a path.
attributedPaths(error) ==
    {error.path, error.jsonUrl, error.readMeUrl, error.folderUrl} \ {NoPath}

\* devOps.isPRRelatedError(fileChanges, error): the changed-file set
\* intersects the attributed paths of the finding.
isPRRelatedError(fileChanges, error) ==
    \E i \in 1..Len(fileChanges) : resolve(Cwd, fileChanges[i]) \in attributedPaths(error)

\* Mutant: the working directory is kept among the parent directories.
swaggerParentDirsWithRoot(fileChanges) ==
    uniq([i \in 1..Len(fileChanges) |-> dirname(resolve(Cwd, fileChanges[i]))])

\* Lines 580-584: the distinct parent directories of the changed paths,
\* the working directory left out.
swaggerParentDirs(fileChanges) ==
    LET parents == [i \in 1..Len(fileChanges) |-> dirname(resolve(Cwd, fileChanges[i]))]
        NotWorkingDir(item) == item # Cwd
    IN  uniq(SelectSeq(parents, NotWorkingDir))

\* Mutant: a key of both maps is dropped whatever the diff touches.
removeExistingByKeyOnly(keys, source, fileChanges) ==
    LET Fresh2(kv) == \A i \in 1..Len(keys) : keys[i] # kv[1]
    IN  SelectSeq(source, Fresh2)

\* Mutant: nothing is dropped.
removeExistingKeepsAll(keys, source, fileChanges) == source

\* Lines 613-618: for each key of targetMap, the entry of sourceMap under
\* that key is deleted unless the finding is related to the changed files.
RECURSIVE removeExisting(_, _, _)
removeExisting(keys, source, fileChanges) ==
    IF keys = <<>> THEN source
    ELSE LET e == Head(keys)
             kept == IF MapHas(source, e) /\ ~isPRRelatedError(fileChanges, MapGet(source, e))
                     THEN MapDelete(source, e)
                     ELSE source
         IN  removeExisting(Tail(keys), kept, fileChanges)

\* Lines 576-599: the manifest directories of the changed files are
\* collected; a parent directory with no manifest up to the working
\* directory is reported unless an exclusion matches it.
devOpsScan ==
    /\ dpc = "scan"
    /\ LET parents == swaggerParentDirs(diffFiles)
           Found(item) == findTheNearestReadme(Cwd, item) # NoPath
           Reported(item) ==
               /\ ~Found(item)
               /\ ~\E excludeItem \in exclude : Includes(item, excludeItem)
           found == SelectSeq(parents, Found)
           bare == SelectSeq(parents, Reported)
       IN  /\ readmeDirs' = uniq([i \in 1..Len(found) |-> findTheNearestReadme(Cwd, found[i])])
           /\ emitted' = [i \in 1..Len(bare) |->
                             Finding("MISSING_README", bare[i], NoPath, NoPath, bare[i], 0)]
    /\ dirIdx' = 1
    /\ dpc' = "target"
    /\ UNCHANGED <<walkVars, tree, exclude, dir, pc, map, targetTree, sourceTree, diffFiles,
                   targetMap, sourceMap, batch, runFindings>>

\* Lines 601-603: the target branch is checked out and avocadoForDir is
\* called on the next manifest directory (an absolute path, which
\* path.resolve returns as it is).
devOpsCheckoutTarget ==
    /\ dpc = "target"
    /\ dirIdx <= Len(readmeDirs)
    /\ tree' = targetTree
    /\ dir' = readmeDirs[dirIdx]
    /\ pc' = "call"
    /\ dpc' = "targetRun"
    /\ UNCHANGED <<walkVars, exclude, map, targetTree, sourceTree, diffFiles, readmeDirs,
                   dirIdx, targetMap, sourceMap, emitted, batch, runFindings>>

\* Mutant: the second run starts on the tree the first run left.
devOpsCheckoutSourceKeepsTree ==
    /\ dpc = "targetRun"
    /\ pc = "done"
    /\ targetMap' = map
    /\ runFindings' = runFindings \cup Range(MapValues(map))
    /\ pc' = "call"
    /\ dpc' = "sourceRun"
    /\ UNCHANGED <<walkVars, tree, exclude, dir, map, targetTree, sourceTree, diffFiles,
                   readmeDirs, dirIdx, sourceMap, emitted, batch>>

\* Lines 603-607: the run on the target branch has returned its map; the
\* source branch is checked out and avocadoForDir is called again.
devOpsCheckoutSource ==
    /\ dpc = "targetRun"
    /\ pc = "done"
    /\ targetMap' = map
    /\ runFindings' = runFindings \cup Range(MapValues(map))
    /\ tree' = sourceTree
    /\ pc' = "call"
    /\ dpc' = "sourceRun"
    /\ UNCHANGED <<walkVars, exclude, dir, map, targetTree, sourceTree, diffFiles, readmeDirs,
                   dirIdx, sourceMap, emitted, batch>>

\* Lines 607-620: the run on the source branch has returned its map; the
\* existing findings are removed and the rest is yielded.
devOpsCompare ==
    /\ dpc = "sourceRun"
    /\ pc = "done"
    /\ sourceMap' = map
    /\ runFindings' = runFindings \cup Range(MapValues(map))
    /\ batch' = MapValues(removeExisting(MapKeySeq(targetMap), map, diffFiles))
    /\ emitted' = emitted \o batch'
    /\ dirIdx' = dirIdx + 1
    /\ dpc' = "target"
    /\ UNCHANGED <<walkVars, tree, exclude, dir, pc, map, targetTree, sourceTree, diffFiles,
                   readmeDirs, targetMap>>

\* The paths pr.diff() may report, relative to pr.workingDir: two tracked
\* files, a file of a directory that never holds a manifest, and a file of
\* the working directory itself.
ChangedPaths ==
    {Relative(Cwd, FA), Relative(Cwd, FC), <<"other", "2021", "x.json">>, <<"top.json">>}

\* Size of the arguments of a pull-request run: 3 for an exclusion, 1 for
\* the first diff record and 2 for each further one.
DiffArgSize(x, diff) == (IF x # {} THEN 3 ELSE 0) + 2 * Len(diff) - 1

\* Some tree t that is src, or src with one file or manifest replaced
\* (size of the replacement + 2, at most n), satisfies K(t).
ForSomeEdit(src, n, K(_)) ==
    \/ K(src)
    \/ \E f \in PlainFiles :
           ForSomeContent(f, n - 2, LAMBDA c :
               n >= 2 /\ c # src.files[f] /\ K([src EXCEPT !.files[f] = c]))
    \/ \E d \in ReadmeDirs :
           ForSomeReadme(d, n - 2, LAMBDA r :
               n >= 2 /\ r # src.readmes[d] /\ K([src EXCEPT !.readmes[d] = r]))

\* avocado, line 642: a pull request; the pull-request branch is checked
\* out, the target branch differs from it by at most one file or manifest,
\* and pr.diff() reports one or two changed paths.
InitDiff ==
    /\ \E x \in Excludes, n \in 1..2 :
       \E diff \in [1..n -> ChangedPaths] :
        /\ NoDup(diff)
        /\ DiffArgSize(x, diff) <= MaxSize
        /\ exclude = x
        /\ diffFiles = diff
        /\ IsTree(sourceTree, MaxSize - DiffArgSize(x, diff))
        /\ ForSomeEdit(sourceTree, MaxSize - DiffArgSize(x, diff) - TreeSize(sourceTree),
                       LAMBDA t : targetTree = t)
    /\ tree = sourceTree
    /\ dir = Cwd
    /\ pc = "idle"
    /\ Fresh
    /\ dpc = "scan"
    /\ readmeDirs = <<>>
    /\ dirIdx = 1
    /\ targetMap = <<>>
    /\ sourceMap = <<>>
    /\ emitted = <<>>
    /\ batch = <<>>
    /\ runFindings = {}

NextDiff ==
    \/ Next
    \/ devOpsScan
    \/ devOpsCheckoutTarget
    \/ devOpsCheckoutSource
    \/ devOpsCompare

SpecDiff == InitDiff /\ [][NextDiff]_vars

\* ------------------------------------------- trees with an example file

\* A document with a parser error, an info whose version is '2021' and
\* the management host.
FullHeader ==
    [isNull |-> FALSE, errs |-> 1, info |-> Info2021, host |-> <<"management.azure.com">>]

\* The files a document or a manifest of these trees may name: the schema
\* file svc/c.json, the example file, and a file that is not on disk.
RichTargets == {FC, FE, FB}

\* The number of cross-file references of a document.
RefCount(c) ==
    LET CrossFile(r) == r # LocalRef
    IN  Len(SelectSeq(c.refs, CrossFile))

\* Some content c of file f with at most n cross-file references, with
\* or without the full header, satisfies K(c).
ForSomeRich(f, n, K(_)) ==
    \/ K(Missing)
    \/ \E h \in {Plain, FullHeader} :
       \E k \in 0..n :
       \E targets \in [1..k -> RichTargets] :
           K(Doc(f, h, targets))

\* Some svc/readme.md with at most n inputs satisfies K(r).
ForSomeRichReadme(n, K(_)) ==
    \/ K(NoReadme)
    \/ \E k \in 0..n :
       \E targets \in [1..k -> RichTargets] :
           /\ NoDup(targets)
           /\ K([exists |-> TRUE, inputs |-> [i \in 1..k |-> Relative(DirSvc, targets[i])],
                 autorest |-> TRUE, multi |-> FALSE])

MkRichTree(c, e, r) ==
    [files |-> (FA :> Missing @@ FB :> Missing @@ FC :> c @@ FE :> e),
     readmes |-> (DirSvc :> r @@ DirRm :> NoReadme)]

\* avocado, line 644: avocadoForDir over a tree that holds at most
\* svc/c.json, svc/examples/e.json and svc/readme.md, with at most MaxSize
\* references and inputs in all.
InitRich ==
    /\ \E d \in DirArgs :
        /\ ArgSize({}, d) <= MaxSize
        /\ dir = d
        /\ ForSomeRich(FC, MaxSize - ArgSize({}, d), LAMBDA c :
           ForSomeRich(FE, MaxSize - ArgSize({}, d) - RefCount(c), LAMBDA e :
           ForSomeRichReadme(MaxSize - ArgSize({}, d) - RefCount(c) - RefCount(e), LAMBDA r :
               tree = MkRichTree(c, e, r))))
    /\ exclude = {}
    /\ pc = "call"
    /\ Fresh
    /\ dpc = "off"
    /\ targetTree = tree
    /\ sourceTree = tree
    /\ diffFiles = <<>>
    /\ readmeDirs = <<>>
    /\ dirIdx = 1
    /\ targetMap = <<>>
    /\ sourceMap = <<>>
    /\ emitted = <<>>
    /\ batch = <<>>
    /\ runFindings = {}

SpecRich == InitRich /\ [][Next]_vars

\* ------------------------------------------------------- reference graph

\* The files a file on disk references, as the Walker extracts them.
RefSeq(f) ==
    IF Readable(f) /\ kindOf(f) = "SWAGGER"
    THEN getReferencedFileNames(f, tree.files[f]) ELSE <<>>

RECURSIVE ReachN(_, _)
ReachN(S, n) ==
    IF n = 0 THEN S ELSE ReachN(S \cup UNION {Range(RefSeq(f)) : f \in S}, n - 1)

\* The paths reachable from S through references of files on disk.
Reachable(S) == ReachN(S, Cardinality(Files))

RootPaths == [i \in 1..Len(inputFileSet) |-> inputFileSet[i].path]

\* The walk of validateInputFiles is over.
WalkDone == pc \in {"filter", "done"}

Indexes(code, p) == {i \in 1..Len(findings) : findings[i].code = code /\ findings[i].path = p}

Count(code, p) == Cardinality(Indexes(code, p))

CountCode(code) == Cardinality({i \in 1..Len(findings) : findings[i].code = code})

\* -------------------------------------------------------------------- claims

\* C1 (as stated): when the walk is over no path is left gray, and every
\* path the traversal visited is black and entered the black set once.
C1_VisitedEndBlackOnce ==
    WalkDone =>
        /\ graySet = {}
        /\ \A f \in Files : visits[f] > 0 => (f \in blackSet /\ blackened[f] = 1)

\* a and b reference each other and nothing else is referenced.
TwoCycle(a, b) ==
    /\ a # b /\ Readable(a) /\ Readable(b)
    /\ RefSeq(a) = <<b>> /\ RefSeq(b) = <<a>>
    /\ \A c \in Files \ {a, b} : RefSeq(c) = <<>>

\* C2: for files a <-> b walked from the roots <<a>> or <<a, b>> (a and b
\* in either role), the stream holds exactly one CIRCULAR_REFERENCE, it is
\* attributed to b, where the reference to the gray a was found, and both
\* are black when the walk is over.
C2_TwoCycleOneFinding ==
    \A a, b \in Files :
        (WalkDone /\ TwoCycle(a, b) /\ RootPaths \in {<<a>>, <<a, b>>}) =>
            /\ CountCode("CIRCULAR_REFERENCE") = 1
            /\ Count("CIRCULAR_REFERENCE", b) = 1
            /\ circEdges = {<<b, a>>}
            /\ {a, b} \subseteq blackSet

C2_Witness ==
    \E a, b \in Files :
        /\ WalkDone /\ TwoCycle(a, b) /\ RootPaths = <<a, b>>
        /\ Count("CIRCULAR_REFERENCE", b) = 1

\* C3 (as stated): a missing path the Walker reached has exactly one
\* NO_JSON_FILE_FOUND finding, no other finding, and no CIRCULAR_REFERENCE
\* was raised by a reference to it.
C3_MissingReportedOnce ==
    WalkDone =>
        \A c \in Files :
            (~Readable(c) /\ visits[c] > 0) =>
                /\ Count("NO_JSON_FILE_FOUND", c) = 1
                /\ \A i \in 1..Len(findings) :
                       findings[i].path = c => findings[i].code = "NO_JSON_FILE_FOUND"
                /\ \A e \in circEdges : e[2] # c

\* The directories of the manifests validateFolder found.
ManifestDirs == {dirname(p) : p \in Range(allReadMeFiles(dir))}

\* C4 (as stated): when validateInputFiles is over, a file on disk under a
\* manifest's directory has exactly one UNREFERENCED_JSON_FILE finding if no
\* root reaches it, and none if it is a root or reachable from one.
C4_UnreferencedExactlyOnce ==
    WalkDone =>
        \A f \in Files :
            (Readable(f) /\ \E d \in ManifestDirs : IsPrefix(d, dirname(f))) =>
                Count("UNREFERENCED_JSON_FILE", f)
                    = (IF f \in Reachable(Range(RootPaths)) THEN 0 ELSE 1)

\* C7 (as stated): findings share a correlation key only if they have the
\* same code, path and position, so every finding of the run is kept in the
\* map under its key.
C7_KeysSeparateConditions ==
    pc = "filter" =>
        /\ \A i, j \in 1..Len(findings) :
               errorCorrelationId(findings[i]) = errorCorrelationId(findings[j]) =>
                   /\ findings[i].code = findings[j].code
                   /\ findings[i].path = findings[j].path
                   /\ findings[i].position = findings[j].position
        /\ \A i \in 1..Len(findings) :
               /\ MapHas(map, errorCorrelationId(findings[i]))
               /\ MapGet(map, errorCorrelationId(findings[i])).path = findings[i].path

\* C8 (as stated): a parsed SWAGGER node has an INCONSISTENT_API_VERSION
\* finding exactly if its document declares a version that does not occur
\* in its path.
C8_VersionFindingIffDeclared ==
    \A f \in Files :
        (visits[f] > 0 /\ Readable(f) /\ kindOf(f) = "SWAGGER") =>
            (Count("INCONSISTENT_API_VERSION", f) > 0
                <=> (tree.files[f].info.hasVersion
                        /\ ~Includes(f, tree.files[f].info.version)))

\* C9: when the walk is over, every file on disk that the roots reach
\* through references of files on disk is black, whatever nodes were
\* missing or had parse errors on the way.
C9_ReachableEndBlack ==
    WalkDone =>
        \A f \in Reachable(Range(RootPaths)) : Readable(f) => f \in blackSet

\* A root on disk whose first reference is missing and whose second
\* reference was walked after the failure.
C9_Witness ==
    /\ WalkDone
    /\ \E f, m, g \in Files :
        /\ f # g /\ Readable(f) /\ ~Readable(m) /\ Readable(g)
        /\ RootPaths = <<f>>
        /\ RefSeq(f) = <<m, g>>
        /\ Count("NO_JSON_FILE_FOUND", m) = 1
        /\ g \in blackSet

\* ------------------------------------------------------ claims, diff engine

\* The changed-file set, resolved against the working directory.
ChangedSet == {resolve(Cwd, diffFiles[i]) : i \in 1..Len(diffFiles)}

\* The changed-file set intersects the attributed paths of e.
Touches(e) == ChangedSet \cap attributedPaths(e) # {}

\* The loop of avocadoForDevOps has compared the maps of a directory.
Compared == dpc = "target" /\ dirIdx > 1

\* The two revisions hold the same tree, the diff is not empty, and no
\* finding of any run or of the stream is attributed to a changed path.
IdenticalUnrelated ==
    /\ targetTree = sourceTree
    /\ diffFiles # <<>>
    /\ \A e \in runFindings \cup Range(emitted) : ~Touches(e)

\* C5 (as stated): with identical revisions and a diff that touches no
\* attributed path of any finding, avocadoForDevOps emits nothing.
C5_IdenticalTreesEmitNothing == IdenticalUnrelated => emitted = <<>>

\* The parent directories of changed paths, other than the working
\* directory, that no manifest encloses and no exclusion matches.
BareParents ==
    {d \in {dirname(c) : c \in ChangedSet} \ {Cwd} :
        /\ ~\E r \in ReadmeDirs : sourceTree.readmes[r].exists /\ IsPrefix(r, d)
        /\ ~\E x \in exclude : Includes(d, x)}

\* C5 (amended): with identical revisions and a diff that touches no
\* attributed path of any finding, avocadoForDevOps emits nothing but a
\* MISSING_README for each changed file's parent directory that no manifest
\* encloses and no exclusion matches; it emits nothing when there is no
\* such directory.
C5_IdenticalTreesEmitOnlyMissingReadme ==
    IdenticalUnrelated =>
        /\ \A i \in 1..Len(emitted) :
               emitted[i].code = "MISSING_README" /\ emitted[i].path \in BareParents
        /\ BareParents = {} => emitted = <<>>

\* Identical revisions with an unreferenced file the diff does not touch:
\* both runs are over and nothing was emitted.
C5_Witness ==
    /\ Compared /\ dirIdx > Len(readmeDirs)
    /\ IdenticalUnrelated
    /\ \E e \in Range(MapValues(sourceMap)) : e.code = "UNREFERENCED_JSON_FILE"
    /\ emitted = <<>>

\* C6: what an iteration of the loop yields are exactly the values of
\* sourceMap whose key is not in targetMap and those whose key is in both
\* maps and whose attributed paths meet the changed-file set, each once; a
\* finding under a key of both maps that the diff does not touch is not
\* yielded, nor is a finding of targetMap whose key sourceMap lacks.
C6_EmittedExactlyNewOrTouched ==
    Compared =>
        /\ Range(batch) =
             {MapGet(sourceMap, k) :
                 k \in {j \in MapKeys(sourceMap) :
                           j \notin MapKeys(targetMap) \/ Touches(MapGet(sourceMap, j))}}
        /\ Len(batch) = Cardinality(Range(batch))
        /\ \A k \in MapKeys(sourceMap) \cap MapKeys(targetMap) :
               ~Touches(MapGet(sourceMap, k)) => MapGet(sourceMap, k) \notin Range(batch)
        /\ \A k \in MapKeys(targetMap) \ MapKeys(sourceMap) :
               MapGet(targetMap, k) \notin Range(batch)

\* An iteration that yielded a finding new in the source revision and a
\* finding of both revisions that the diff touches, and suppressed a
\* finding of both revisions that the diff does not touch.
C6_Witness ==
    /\ Compared
    /\ \E k1, k2, k3 \in MapKeys(sourceMap) :
        /\ k1 \notin MapKeys(targetMap)
        /\ MapGet(sourceMap, k1) \in Range(batch)
        /\ k2 \in MapKeys(targetMap) /\ Touches(MapGet(sourceMap, k2))
        /\ MapGet(sourceMap, k2) \in Range(batch)
        /\ k3 \in MapKeys(targetMap) /\ ~Touches(MapGet(sourceMap, k3))
        /\ MapGet(sourceMap, k3) \notin Range(batch)

\* C10: two avocadoForDir runs over the same directory of the same tree
\* with the same exclusions return maps with the same set of correlation
\* keys.
C10_SameTreeSameKeys ==
    (Compared /\ targetTree = sourceTree) => MapKeys(targetMap) = MapKeys(sourceMap)

\* Two runs over a tree with a missing file and another finding.
C10_Witness ==
    /\ Compared /\ targetTree = sourceTree
    /\ Cardinality(MapKeys(sourceMap)) >= 2
    /\ \E e \in Range(MapValues(sourceMap)) : e.code = "NO_JSON_FILE_FOUND"
    /\ MapKeys(targetMap) = MapKeys(sourceMap)

\* ---------------------------------------------------- claims, traversal state

\* The paths of the active DFSTraversalValidate calls.
StackPaths == {stack[k].current.path : k \in 1..Len(stack)}

\* C11 (as stated): whenever the Walker is about to emit CIRCULAR_REFERENCE
\* for a reference current -> t (t is gray), t is current or an ancestor of
\* current on the active stack.
C11_CircularOnlyForStackTarget ==
    (AtRef /\ refFileName \in graySet) => refFileName \in StackPaths

\* C12 (as stated): every gray path is the path of an active call.
C12_GrayIsOnStack == graySet \subseteq StackPaths

\* C13 (as stated): a path is not black while the call that first visited
\* it still has outbound references to process, and when the walk is over
\* every visited path has entered the black set exactly once.
C13_BlackOnceAfterAllReferences ==
    /\ \A k \in 1..Len(stack) :
           (/\ visits[stack[k].current.path] = 1
            /\ stack[k].i >= 1
            /\ stack[k].i <= Len(stack[k].refs))
               => stack[k].current.path \notin blackSet
    /\ WalkDone => \A f \in Files : visits[f] > 0 => blackened[f] = 1

\* C14: the gray set and the black set are always disjoint, and no step
\* of a traversal removes a path from the black set.
C14_DisjointAndBlackStays ==
    [](graySet \cap blackSet = {}) /\ [][blackSet \subseteq blackSet']_vars

\* A root that was black when its own walk started has been read again
\* and is black, not gray.
C14_Witness ==
    /\ pc = "walk" /\ Len(stack) = 1
    /\ Top.i >= 1
    /\ visits[Top.current.path] = 2
    /\ Top.current.path \in blackSet
    /\ Top.current.path \notin graySet

\* ------------------------------------------------ claims, diff engine steps

\* The steps of avocadoForDevOps, as changes of its position.
DevOpsSteps ==
    {<<"scan", "target">>, <<"target", "targetRun">>,
     <<"targetRun", "sourceRun">>, <<"sourceRun", "target">>}

\* C17: a run attributed to a revision sees the tree of that revision from
\* its call to its return; checkouts, comparison and emission happen only
\* between runs, in the order checkout(target), run, checkout(source), run,
\* comparison with emission; targetMap is what the run on the target tree
\* returned; after a comparison the working tree is the source revision.
C17_RunsInOrderOnOwnTree ==
    /\ [](/\ dpc = "targetRun" => tree = targetTree
          /\ dpc = "sourceRun" => tree = sourceTree
          /\ dpc \in {"scan", "target"} => pc \in {"idle", "done"}
          /\ Compared => tree = sourceTree)
    /\ [][/\ dpc' # dpc =>
               /\ <<dpc, dpc'>> \in DevOpsSteps
               /\ pc = (IF dpc \in {"targetRun", "sourceRun"} THEN "done" ELSE pc)
               /\ pc' = (IF dpc' \in {"targetRun", "sourceRun"} THEN "call" ELSE pc)
          /\ tree' # tree => dpc' # dpc
          /\ targetMap' # targetMap =>
               (dpc = "targetRun" /\ dpc' = "sourceRun" /\ targetMap' = map)
          /\ emitted' # emitted => (dpc' = "target" /\ dpc \in {"scan", "sourceRun"})]_vars

\* Both runs of the only manifest directory are over, on revisions that
\* differ and gave different maps, and the tree is the source revision.
C17_Witness ==
    /\ Compared /\ dirIdx > Len(readmeDirs)
    /\ targetTree # sourceTree
    /\ MapKeys(targetMap) # MapKeys(sourceMap)
    /\ tree = sourceTree

\* The parent directories of the changed paths, the working directory
\* left out.
ParentDirs == {dirname(c) : c \in ChangedSet} \ {Cwd}

\* The manifest directories from D upward, below the working directory.
ManifestsAbove(D) == {r \in ReadmeDirs : tree.readmes[r].exists /\ IsPrefix(r, D)}

NearestManifest(D) ==
    CHOOSE r \in ManifestsAbove(D) : \A q \in ManifestsAbove(D) : Len(q) <= Len(r)

\* Step 1 of avocadoForDevOps is over and no directory has been compared.
Scanned == dpc = "target" /\ dirIdx = 1

\* C18: after step 1 the manifest directories to validate are the nearest
\* manifest directories of the parent directories that have one, each
\* once; a parent directory with none has exactly one MISSING_README
\* unless an exclusion matches it; nothing else is emitted.
C18_ScanFindsNearestOrReports ==
    Scanned =>
        /\ Range(readmeDirs) =
             {NearestManifest(D) : D \in {E \in ParentDirs : ManifestsAbove(E) # {}}}
        /\ NoDup(readmeDirs)
        /\ \A D \in ParentDirs :
               Cardinality({i \in 1..Len(emitted) : emitted[i].path = D})
                   = (IF /\ ManifestsAbove(D) = {}
                         /\ ~\E x \in exclude : Includes(D, x)
                      THEN 1 ELSE 0)
        /\ \A i \in 1..Len(emitted) :
               /\ emitted[i].code = "MISSING_README"
               /\ emitted[i].path \in ParentDirs
               /\ emitted[i].folderUrl = emitted[i].path

\* A diff with a file two levels below its nearest manifest and a file of
\* a directory without any: one directory to validate, one finding.
C18_Witness ==
    /\ Scanned
    /\ \E D1, D2 \in ParentDirs :
        /\ ManifestsAbove(D1) # {} /\ NearestManifest(D1) # D1
        /\ readmeDirs = <<NearestManifest(D1)>>
        /\ ManifestsAbove(D2) = {}
        /\ Len(emitted) = 1 /\ emitted[1].path = D2

\* ------------------------------------------- claims, missing-manifest rule

\* D holds a SWAGGER-kind file under a recognized category, not under
\* 'common', and neither D nor a directory between D and the scan root
\* (the argument of validateFolder) holds a manifest.
NeedsManifest(D) ==
    /\ IsPrefix(dir, D)
    /\ \E f \in Files :
        /\ Readable(f) /\ dirname(f) = D /\ kindOf(f) = "SWAGGER"
        /\ \E k \in 1..Len(D) : <<D[k]>> \in validDirs
        /\ ~\E k \in 1..Len(D) : <<D[k]>> \in ignoredDirs
    /\ ~\E r \in ReadmeDirs :
           tree.readmes[r].exists /\ IsPrefix(dir, r) /\ IsPrefix(r, D)

\* C19 (as stated): once validateRPFolderMustContainReadme has run, the
\* stream holds exactly one MISSING_README for every directory that needs
\* a manifest and has none up to the scan root, and none for any other.
C19_MissingReadmeUpToScanRoot ==
    pc \in {"walk", "filter", "done"} =>
        \A D \in {dirname(f) : f \in Files} :
            Count("MISSING_README", D) = (IF NeedsManifest(D) THEN 1 ELSE 0)

\* ------------------------------------------------- claims, black set closure

\* C20: when the walk is over, every reference target of a black file on
\* disk of kind SWAGGER is black or is not on disk, and every black path is
\* a root or reachable from a root through references of files on disk.
C20_BlackClosedAndReachable ==
    WalkDone =>
        /\ \A f \in blackSet :
               (Readable(f) /\ kindOf(f) = "SWAGGER") =>
                   \A t \in Range(RefSeq(f)) : t \in blackSet \/ ~Readable(t)
        /\ blackSet \subseteq Reachable(Range(RootPaths))

\* A root that was forced black by its own back-edge and whose later
\* reference was still explored.
C20_Witness ==
    /\ WalkDone
    /\ \E f, g \in Files :
        /\ f # g /\ Readable(f) /\ Readable(g)
        /\ RootPaths = <<f>>
        /\ RefSeq(f) = <<f, g>>
        /\ <<f, f>> \in circEdges
        /\ {f, g} \subseteq blackSet

\* ------------------------------------------------- claims, emission order

\* The place of a Walker finding among the findings of its node.
Rank(code) ==
    CASE code = "JSON_PARSE" -> 1
      [] code = "INCONSISTENT_API_VERSION" -> 2
      [] code = "INVALID_FILE_LOCATION" -> 3
      [] OTHER -> 4

\* The codes DFSTraversalValidate yields.
WalkerCodes ==
    {"NO_JSON_FILE_FOUND", "JSON_PARSE", "INCONSISTENT_API_VERSION",
     "INVALID_FILE_LOCATION", "CIRCULAR_REFERENCE"}

\* The indexes of the Walker findings attributed to path p.
WalkerIndexes(p) ==
    {i \in 1..Len(findings) : findings[i].path = p /\ findings[i].code \in WalkerCodes}

\* The position of the first reference of refs that names t.
FirstRef(refs, t) == CHOOSE a \in 1..Len(refs) : refs[a] = t /\ \A b \in 1..(a - 1) : refs[b] # t

ParsedExamples == {f \in Files : isExample(f) /\ visits[f] > 0 /\ Readable(f)}

\* C16: a file under an examples directory is a leaf of the walk: no rule
\* finding and no CIRCULAR_REFERENCE is attributed to it, its frame holds
\* no reference and is never below another frame, nothing is visited that
\* is not reachable from the roots through non-example files, and when the
\* walk is over it is black.
C16_ExamplesAreLeaves ==
    /\ \A f \in ParsedExamples :
           /\ Count("INCONSISTENT_API_VERSION", f) = 0
           /\ Count("INVALID_FILE_LOCATION", f) = 0
           /\ Count("CIRCULAR_REFERENCE", f) = 0
           /\ \A e \in circEdges : e[1] # f
           /\ WalkDone => f \in blackSet /\ blackened[f] >= 1
    /\ \A i \in 1..Len(stack) :
           isExample(stack[i].current.path) => i = Len(stack) /\ stack[i].refs = <<>>
    /\ {f \in Files : visits[f] > 0} \subseteq Reachable(Range(RootPaths))

\* An example file with a declared version, a host and a reference back to
\* the file that refers to it has been read, parsed and moved to black,
\* and its referrer was visited only once.
C16_Witness ==
    /\ WalkDone
    /\ FE \in ParsedExamples
    /\ RootPaths = <<FC>>
    /\ FE \in Range(RefSeq(FC))
    /\ tree.files[FE].info = Info2021 /\ tree.files[FE].host # <<>>
    /\ FC \in Range(getReferencedFileNames(FE, tree.files[FE]))
    /\ visits[FC] = 1 /\ visits[FE] = 1
    /\ Count("JSON_PARSE", FE) = 1
    /\ FE \in blackSet

\* ------------------------------------------------ claims, repeated work

\* The codes a node yields at most once each time it is processed.
OncePerVisitCodes == {"NO_JSON_FILE_FOUND", "INCONSISTENT_API_VERSION", "INVALID_FILE_LOCATION"}

\* C21 (as stated): within one walk over the roots every path is processed
\* at most once, so no node has two findings with the same code that a
\* single processing yields once.
C21_ProcessedAtMostOnce ==
    /\ \A f \in Files : visits[f] <= 1
    /\ \A f \in Files, code \in OncePerVisitCodes :
           Cardinality({i \in 1..Len(findings) :
                            findings[i].code = code /\ findings[i].jsonUrl = f}) <= 1

\* The correlation keys of the findings avocadoForDevOps has yielded.
EmittedKeys == [i \in 1..Len(emitted) |-> errorCorrelationId(emitted[i])]

\* C22 (as stated): the sequence avocadoForDevOps yields holds no two
\* findings with the same correlation key.
C22_EmittedKeysDistinct == NoDup(EmittedKeys)

====
